---- MODULE Spec2Model ----
(***************************************************************************)
(* Model of the smaract client: SmaractBaseController.send_cmd (command    *)
(* dispatch and error drain), SmaractMCSController._create_axes (axis      *)
(* enumeration) and SmaractBaseAxis.safe_direction (validated setter).     *)
(* Text on the wire is modelled as sequences of characters so that the     *)
(* parsing done by the client (int, rsplit, replace, lower, format) is     *)
(* computed, not assumed.                                                  *)
(***************************************************************************)
EXTENDS Integers, Sequences, FiniteSets, TLC

\* ---------------------------------------------------------------- bounds
\* capacity of the controller-side error queue
MaxQueue == 2
\* largest channel count the controller reports
MaxChan == 2

\* ------------------------------------------------------- text operations
\* decimal digits, in order of value
DigitChars == <<"0", "1", "2", "3", "4", "5", "6", "7", "8", "9">>

DigitVal(c) == (CHOOSE i \in 1..10 : DigitChars[i] = c) - 1

\* the value python's int() gives for a string of decimal digits
RECURSIVE ParseInt(_)
ParseInt(s) ==
    IF Len(s) = 0 THEN 0
    ELSE 10 * ParseInt(SubSeq(s, 1, Len(s) - 1)) + DigitVal(s[Len(s)])

\* the text python's '%d' gives for a natural number
RECURSIVE FormatInt(_)
FormatInt(n) ==
    IF n < 10 THEN <<DigitChars[n + 1]>>
    ELSE FormatInt(n \div 10) \o <<DigitChars[(n % 10) + 1]>>

\* str.rsplit(sep) / str.split(sep) without maxsplit: every field, in order
RECURSIVE Split(_, _)
Split(s, sep) ==
    IF \A i \in 1..Len(s) : s[i] # sep THEN <<s>>
    ELSE LET k == CHOOSE i \in 1..Len(s) :
                      s[i] = sep /\ \A j \in 1..(i - 1) : s[j] # sep
         IN  <<SubSeq(s, 1, k - 1)>> \o Split(SubSeq(s, k + 1, Len(s)), sep)

\* str.replace(c, ''): every occurrence of the character removed
RECURSIVE Remove(_, _)
Remove(s, c) ==
    IF Len(s) = 0 THEN <<>>
    ELSE IF Head(s) = c THEN Remove(Tail(s), c)
    ELSE <<Head(s)>> \o Remove(Tail(s), c)

\* t occurs in s as a contiguous run of characters
IsInfix(t, s) ==
    \E i \in 0..(Len(s) - Len(t)) : SubSeq(s, i + 1, i + Len(t)) = t

SeqsUpTo(S, n) == UNION {[1..k -> S] : k \in 0..n}

\* ------------------------------------------------- controller (device) side
\* keys of SmaractBaseController.ERROR_CODES
ERROR_CODES == (0..8) \cup {129} \cup (140..148) \cup (150..157) \cup {159}

\* error records the controller queues: "no error", a code of the static
\* table (once with a comma in its text) and a code absent from the table
Records ==
    { [code |-> 0, msg |-> <<"O", "K">>],
      [code |-> 147, msg |-> <<"R", "L">>],
      [code |-> 147, msg |-> <<"R", ",", "L">>],
      [code |-> 999, msg |-> <<"U">>] }

COUNT_QUERY == <<":SYST:ERR:COUN?">>
NEXT_QUERY == <<":SYST:ERR:NEXT?">>
NOCH_QUERY == <<":DEV:NOCH?">>

\* reply lines of ordinary commands
Replies == {<<":", "S", "D", "1">>, <<"0", ",", "3">>}

\* reply lines of the positioner-type query
SensorReplies ==
    { <<"\"", "S", "L", "\"">>,
      <<"S", "R", ".", "D", "\r">>,
      <<"\"", "C", "U", "S", "T", "O", "M", "2", "\"", "\r">>,
      <<"X", "X">>,
      <<"\"", "S", ".", "L", "\"">> }

IsPtypeQuery(c) ==
    Len(c) >= 3 /\ c[1] = ":CHAN" /\ c[Len(c)] = ":PTYPE:NAME?"

\* the reply lines the controller can give to a command
DeviceReplies(c) ==
    IF c = NOCH_QUERY THEN {FormatInt(n) : n \in 0..MaxChan}
    ELSE IF IsPtypeQuery(c) THEN SensorReplies
    ELSE Replies

\* the records a command can add to the error queue q
DeviceErrors(q) == SeqsUpTo(Records, MaxQueue - Len(q))

\* reply to :SYST:ERR:COUN? : the number of queued records
DeviceCount(q) == FormatInt(Len(q))

\* reply to :SYST:ERR:NEXT? : "<code>,<message>" of the oldest record
DeviceNext(q) ==
    IF Len(q) = 0 THEN <<"0", ",", "N", "o">>
    ELSE FormatInt(Head(q).code) \o <<",">> \o Head(q).msg

\* the queue after :SYST:ERR:NEXT? : the oldest record is removed
DevicePop(q) == IF Len(q) = 0 THEN q ELSE Tail(q)

\* a controller that is stuck answers every count query with a nonzero
\* value and every record read with a code-0 record
CountReply(d, q) == IF d = "stuck" THEN <<"1">> ELSE DeviceCount(q)
NextReply(d, q) == IF d = "stuck" THEN DeviceNext(<<>>) ELSE DeviceNext(q)

\* the exchanges kept in the log: more than any call against a working
\* controller makes, so that only an endless drain fills it
MaxLog == 2 * MaxQueue + 4

\* an exchange is added to the log while there is room
Record(l, x) == IF Len(l) < MaxLog THEN Append(l, x) ELSE l

\* ------------------------------------------------------------ client side
VARIABLES
    life,      \* "constructing" | "ready" | "failed": the controller object
    op,        \* the public operation last called
    caller,    \* the method that called send_cmd
    pc,        \* position: "idle" | "cmd" | "count" | "next" | "ret"
    cmd,       \* send_cmd's argument
    ans,       \* send_cmd's local ans
    ret,       \* the value the current send_cmd call returned
    log,       \* transport exchanges of the current send_cmd call
    q0,        \* the error queue right after the command was processed
    result,    \* outcome of the last public operation
    queue,     \* the controller's error queue
    axes,      \* the controller object itself: the list of axes
    axis_nr,   \* loop variable of _create_axes
    nch,       \* value of self.nchannels in _create_axes
    enumLog,   \* type queries answered in the current _create_axes call
    arg,       \* argument of the last public operation
    dev,       \* "fifo" | "stuck": how the controller answers the drain
    wire,      \* the last request written to the transport
    enq,       \* the records the last command added to the error queue
    held,      \* number of axes held when the current _create_axes began
    old        \* axes of earlier enumerations left after its pop loop

vars == <<life, op, caller, pc, cmd, ans, ret, log, q0, result, queue, axes,
          axis_nr, nch, enumLog, arg, dev, wire, enq, held, old>>

NoResult == [kind |-> "none", val |-> <<>>]

Init ==
    /\ life = "constructing"
    /\ op = "none"
    /\ caller = "none"
    /\ pc = "idle"
    /\ cmd = <<>>
    /\ ans = <<>>
    /\ ret = <<>>
    /\ log = <<>>
    /\ q0 = <<>>
    /\ result = NoResult
    /\ queue \in SeqsUpTo(Records, MaxQueue)
    /\ axes = <<>>
    /\ axis_nr = 0
    /\ nch = 0
    /\ enumLog = <<>>
    /\ arg = <<>>
    /\ dev = "fifo"
    /\ wire = <<>>
    /\ enq = <<>>
    /\ held = 0
    /\ old = 0

\* variant: the loop is left once a single record remains
Drained_le_one(err) == err <= 1

\* variant: the loop is left after the first count query, whatever it says
Drained_always(err) == err >= 0

\* int(self._comm.send_cmd(':SYST:ERR:COUN?')) == 0: the loop's exit test
Drained(err) == err = 0

\* error_code = int(resp.rsplit(',')[0])
error_code_of(resp) == ParseInt(Split(resp, ",")[1])

\* error_msg = resp.rsplit(',')[1]
error_msg_of(resp) == Split(resp, ",")[2]

\* variant: only the codes of the static table are treated as errors
Fatal_table_only(error_code) == error_code \in (ERROR_CODES \ {0})

\* variant: every record that is read counts as an error
Fatal_any_record(error_code) == error_code >= 0

\* if error_code != 0
Fatal(error_code) == error_code # 0

\* 'Error %d: %s' % (error_code, error_msg)
ErrorText(error_code, error_msg) ==
    <<"Error ">> \o FormatInt(error_code) \o <<": ">> \o error_msg

\* variant: the reply cut at its first comma before it is handed back
Returned_first_field(a) == Split(a, ",")[1]

\* the value send_cmd hands back: return ans
Returned(a) == a

\* an exception leaves every frame; one raised inside the constructor
\* leaves no controller object behind
Raise(kind, text) ==
    /\ result' = [kind |-> kind, val |-> text]
    /\ pc' = "idle"
    /\ life' = IF life = "constructing" THEN "failed" ELSE life

\* entry of send_cmd(c) called by who
Enter(c, who) ==
    /\ cmd' = c
    /\ caller' = who
    /\ pc' = "cmd"
    /\ ans' = <<>>
    /\ log' = <<>>
    /\ ret' = <<>>
    /\ q0' = <<>>
    /\ enq' = <<>>

\* ------------------------------------------------------------- send_cmd
\* variant: the reply is handed back without the error drain
send_cmd_command_no_drain ==
    /\ pc = "cmd"
    /\ \E r \in DeviceReplies(cmd), e \in DeviceErrors(queue) :
          /\ queue' = queue \o e
          /\ q0' = queue \o e
          /\ ans' = r
          /\ ret' = r
          /\ enq' = e
          /\ log' = Record(log, [req |-> cmd, rep |-> r])
    /\ pc' = "ret"
    /\ wire' = cmd
    /\ UNCHANGED <<dev, old, held>>
    /\ UNCHANGED <<life, op, caller, cmd, result, axes, axis_nr, nch,
                   enumLog, arg>>

\* ans = self._comm.send_cmd(cmd): the controller processes the command,
\* queues the errors it caused and answers with one reply line
send_cmd_command ==
    /\ pc = "cmd"
    /\ \E r \in DeviceReplies(cmd), e \in DeviceErrors(queue) :
          /\ queue' = queue \o e
          /\ q0' = queue \o e
          /\ ans' = r
          /\ enq' = e
          /\ log' = Record(log, [req |-> cmd, rep |-> r])
    /\ pc' = "count"
    /\ wire' = cmd
    /\ UNCHANGED <<dev, old, held>>
    /\ UNCHANGED <<life, op, caller, cmd, ret, result, axes, axis_nr, nch,
                   enumLog, arg>>

\* err = int(self._comm.send_cmd(':SYST:ERR:COUN?')); if err == 0: break;
\* return ans
send_cmd_count ==
    /\ pc = "count"
    /\ LET rep == CountReply(dev, queue)
           err == ParseInt(rep)
       IN  /\ log' = Record(log, [req |-> COUNT_QUERY, rep |-> rep])
           /\ IF Drained(err)
              THEN pc' = "ret" /\ ret' = Returned(ans)
              ELSE pc' = "next" /\ ret' = ret
    /\ wire' = COUNT_QUERY
    /\ UNCHANGED <<dev, enq, old, held>>
    /\ UNCHANGED <<life, op, caller, cmd, ans, q0, result, queue, axes,
                   axis_nr, nch, enumLog, arg>>

\* the log after every record of q has been read off in turn
RECURSIVE ReadOff(_, _)
ReadOff(l, q) ==
    IF Len(q) = 0 THEN l
    ELSE ReadOff(Record(l, [req |-> NEXT_QUERY, rep |-> DeviceNext(q)]), Tail(q))

\* variant: on a nonzero code the rest of the queue is read off before
\* the error is raised
send_cmd_next_drain_rest ==
    /\ pc = "next"
    /\ LET resp == NextReply(dev, queue)
           error_code == error_code_of(resp)
           error_msg == error_msg_of(resp)
       IN  IF Fatal(error_code)
           THEN /\ log' = ReadOff(log, queue)
                /\ queue' = <<>>
                /\ Raise("RuntimeError", ErrorText(error_code, error_msg))
           ELSE /\ log' = Record(log, [req |-> NEXT_QUERY, rep |-> resp])
                /\ queue' = DevicePop(queue)
                /\ pc' = "count"
                /\ UNCHANGED <<result, life>>
    /\ wire' = NEXT_QUERY
    /\ UNCHANGED <<dev, enq, old, held>>
    /\ UNCHANGED <<op, caller, cmd, ans, ret, q0, axes, axis_nr, nch,
                   enumLog, arg>>

\* variant: after a code-0 record the next record is read at once while
\* records remain, without asking for the count again
send_cmd_next_no_recount ==
    /\ pc = "next"
    /\ LET resp == NextReply(dev, queue)
           error_code == error_code_of(resp)
           error_msg == error_msg_of(resp)
       IN  /\ log' = Record(log, [req |-> NEXT_QUERY, rep |-> resp])
           /\ queue' = DevicePop(queue)
           /\ IF Fatal(error_code)
              THEN Raise("RuntimeError", ErrorText(error_code, error_msg))
              ELSE /\ pc' = IF Len(DevicePop(queue)) > 0 THEN "next" ELSE "count"
                   /\ UNCHANGED <<result, life>>
    /\ wire' = NEXT_QUERY
    /\ UNCHANGED <<dev, enq, old, held>>
    /\ UNCHANGED <<op, caller, cmd, ans, ret, q0, axes, axis_nr, nch,
                   enumLog, arg>>

\* resp = self._comm.send_cmd(':SYST:ERR:NEXT?'); split into code and
\* message; raise RuntimeError on a nonzero code, else loop
send_cmd_next ==
    /\ pc = "next"
    /\ \E resp \in {NextReply(dev, queue)} :
       \E error_code \in {error_code_of(resp)} :
       LET error_msg == error_msg_of(resp)
       IN  /\ log' = Record(log, [req |-> NEXT_QUERY, rep |-> resp])
           /\ queue' = DevicePop(queue)
           /\ IF Fatal(error_code)
              THEN Raise("RuntimeError", ErrorText(error_code, error_msg))
              ELSE pc' = "count" /\ UNCHANGED <<result, life>>
    /\ wire' = NEXT_QUERY
    /\ UNCHANGED <<dev, enq, old, held>>
    /\ UNCHANGED <<op, caller, cmd, ans, ret, q0, axes, axis_nr, nch,
                   enumLog, arg>>

\* commands a user of the controller sends: sensor_enabled
UserCmds == {<<"GSE">>}

\* a direct call ctrl.send_cmd(c)
send_cmd(c) ==
    /\ pc = "idle"
    /\ life = "ready"
    /\ op' = "send_cmd"
    /\ arg' = c
    /\ result' = NoResult
    /\ Enter(c, "user")
    /\ enumLog' = <<>>
    /\ held' = 0
    /\ UNCHANGED <<dev, wire, old>>
    /\ UNCHANGED <<life, queue, axes, axis_nr, nch>>

\* the direct call gets send_cmd's return value
send_cmd_return ==
    /\ pc = "ret"
    /\ caller = "user"
    /\ result' = [kind |-> "return", val |-> ret]
    /\ pc' = "idle"
    /\ UNCHANGED <<dev, wire, enq, old, held>>
    /\ UNCHANGED <<life, op, caller, cmd, ans, ret, log, q0, queue, axes,
                   axis_nr, nch, enumLog, arg>>

\* ---------------------------------------------------------- _create_axes
\* ':CHAN%d:PTYPE:NAME?' % axis_nr
PtypeQuery(n) == <<":CHAN">> \o FormatInt(n) \o <<":PTYPE:NAME?">>

\* ans.replace('\"', '').replace('\r', '').rsplit('.')[0]
sensor_code_of(a) == Split(Remove(Remove(a, "\""), "\r"), ".")[1]

\* the sensor codes _create_axes builds an axis for
KnownSensors ==
    { <<"S", "L">>, <<"S", "R">>,
      <<"C", "U", "S", "T", "O", "M", "0">>,
      <<"C", "U", "S", "T", "O", "M", "1">>,
      <<"C", "U", "S", "T", "O", "M", "2">>,
      <<"C", "U", "S", "T", "O", "M", "3">> }

\* variant: every code that starts with S is taken for a linear sensor
KnownSensor_any_S(sensor_code) ==
    Len(sensor_code) >= 1 /\ Head(sensor_code) = "S"

\* the three branches that construct an axis
KnownSensor(sensor_code) == sensor_code \in KnownSensors

\* variant: the axis is built with the default axis_nr=0
SmaractBaseAxis_default(n) == [axis_nr |-> 0]

\* SmaractBaseAxis(self, axis_nr)
SmaractBaseAxis(n) == [axis_nr |-> n]

\* variant: a single pop, the last axis only
PopAll_once(list) ==
    IF Len(list) = 0 THEN list ELSE SubSeq(list, 1, Len(list) - 1)

\* while True: self.pop()  -- until IndexError
PopAll(list) == <<>>

\* "Failed to create axis %s\n" + 'There is not axis class for sensor code %s'
EnumErrorText(n, sensor_code) ==
    <<"Failed to create axis ">> \o FormatInt(n) \o
    <<"\n", "There is not axis class for sensor code ">> \o sensor_code

\* the loop of _create_axes is over and the method returns None
create_axes_finish ==
    /\ pc' = "idle"
    /\ result' = [kind |-> "return", val |-> <<>>]
    /\ life' = "ready"
    /\ UNCHANGED <<caller, cmd, ans, log, ret, q0, enq>>

\* _create_axes is called (by the constructor, or again on a live
\* controller): the list is emptied and self.nchannels is read
_create_axes ==
    /\ pc = "idle"
    /\ life \in {"constructing", "ready"}
    /\ op' = "_create_axes"
    /\ arg' = <<>>
    /\ result' = NoResult
    /\ axes' = PopAll(axes)
    /\ enumLog' = <<>>
    /\ Enter(NOCH_QUERY, "nchannels")
    /\ held' = Len(axes)
    /\ old' = Len(PopAll(axes))
    /\ UNCHANGED <<dev, wire>>
    /\ UNCHANGED <<life, queue, axis_nr, nch>>

\* nchannels returns int(ans); for axis_nr in range(self.nchannels) starts
nchannels_return ==
    /\ pc = "ret"
    /\ caller = "nchannels"
    /\ nch' = ParseInt(ret)
    /\ axis_nr' = 0
    /\ IF 0 < ParseInt(ret)
       THEN Enter(PtypeQuery(0), "_create_axes") /\ UNCHANGED <<result, life>>
       ELSE create_axes_finish
    /\ UNCHANGED <<dev, wire, old, held>>
    /\ UNCHANGED <<op, queue, axes, enumLog, arg>>

\* one pass of the loop body after the type query returned: an axis is
\* appended for a known code, RuntimeError raised for any other
create_axes_step ==
    /\ pc = "ret"
    /\ caller = "_create_axes"
    /\ LET sensor_code == sensor_code_of(ret)
       IN  /\ enumLog' = Append(enumLog, [cmd |-> cmd, code |-> sensor_code])
           /\ IF KnownSensor(sensor_code)
              THEN /\ axes' = Append(axes, SmaractBaseAxis(axis_nr))
                   /\ axis_nr' = axis_nr + 1
                   /\ IF axis_nr + 1 < nch
                      THEN /\ Enter(PtypeQuery(axis_nr + 1), "_create_axes")
                           /\ UNCHANGED <<result, life>>
                      ELSE create_axes_finish
              ELSE /\ Raise("RuntimeError", EnumErrorText(axis_nr, sensor_code))
                   /\ UNCHANGED <<axes, axis_nr, caller, cmd, ans, log, ret,
                                  q0, enq>>
    /\ UNCHANGED <<dev, wire, old, held>>
    /\ UNCHANGED <<op, queue, nch, arg>>

\* -------------------------------------------------------- safe_direction
UpperChars == <<"A", "B", "C", "D", "E", "F", "G", "H", "I", "J", "K", "L", "M",
                "N", "O", "P", "Q", "R", "S", "T", "U", "V", "W", "X", "Y", "Z">>
LowerChars == <<"a", "b", "c", "d", "e", "f", "g", "h", "i", "j", "k", "l", "m",
                "n", "o", "p", "q", "r", "s", "t", "u", "v", "w", "x", "y", "z">>

\* str.lower()
lower(s) ==
    [i \in 1..Len(s) |->
        IF \E k \in 1..26 : UpperChars[k] = s[i]
        THEN LowerChars[CHOOSE k \in 1..26 : UpperChars[k] = s[i]]
        ELSE s[i]]

FORWARD == <<"f", "o", "r", "w", "a", "r", "d">>
BACKWARD == <<"b", "a", "c", "k", "w", "a", "r", "d">>

\* strings a caller assigns to safe_direction
Directions ==
    { FORWARD, BACKWARD,
      <<"F", "o", "r", "w", "a", "r", "d">>,
      <<"B", "A", "C", "K", "W", "A", "R", "D">>,
      <<"s", "i", "d", "e", "w", "a", "y", "s">>,
      <<"f", "o", "r", "w", "a", "r", "d", "s">>,
      <<>> }

\* variant: everything that is not 'forward' is taken as 'backward'
direction_value_lenient(direction) == IF direction = FORWARD THEN 0 ELSE 1

\* the if/elif/else of the setter: 0, 1, or -1 where ValueError is raised
direction_value(direction) ==
    IF direction = FORWARD THEN 0
    ELSE IF direction = BACKWARD THEN 1
    ELSE -1

\* str_cmd.format(self._axis_nr): each '{:d}' field takes the axis number
RECURSIVE format(_, _)
format(str_cmd, n) ==
    IF Len(str_cmd) = 0 THEN <<>>
    ELSE (IF Head(str_cmd) = "{:d}" THEN FormatInt(n) ELSE <<Head(str_cmd)>>)
         \o format(Tail(str_cmd), n)

\* variant: only the last digit of the axis number is embedded
axis_cmd_last_digit(str_cmd, pars, n) == format(str_cmd, n % 10)

\* SmaractBaseAxis._send_cmd(str_cmd, *pars): pars are not used
axis_cmd(str_cmd, pars, n) == format(str_cmd, n)

\* axis.safe_direction = d, for the axis at position i of the list
safe_direction(i, d) ==
    /\ pc = "idle"
    /\ life = "ready"
    /\ i \in 1..Len(axes)
    /\ op' = "safe_direction"
    /\ arg' = d
    /\ LET value == direction_value(lower(d))
       IN  IF value = -1
           THEN /\ Raise("ValueError", <<"Read the help">>)
                /\ log' = <<>>
                /\ UNCHANGED <<caller, cmd, ans, ret, q0, enq>>
           ELSE /\ Enter(axis_cmd(<<"SSD">>, <<value>>, axes[i].axis_nr),
                         "safe_direction")
                /\ result' = NoResult
                /\ life' = life
    /\ enumLog' = <<>>
    /\ held' = 0
    /\ UNCHANGED <<dev, wire, old>>
    /\ UNCHANGED <<queue, axes, axis_nr, nch>>

\* the setter returns None once send_cmd returned
safe_direction_return ==
    /\ pc = "ret"
    /\ caller = "safe_direction"
    /\ result' = [kind |-> "return", val |-> <<>>]
    /\ pc' = "idle"
    /\ UNCHANGED <<dev, wire, enq, old, held>>
    /\ UNCHANGED <<life, op, caller, cmd, ans, ret, log, q0, queue, axes,
                   axis_nr, nch, enumLog, arg>>

\* ------------------------------------------------- axis-level operations
\* str.strip(c): the character removed from both ends
RECURSIVE strip(_, _)
strip(s, c) ==
    IF Len(s) = 0 THEN s
    ELSE IF Head(s) = c THEN strip(Tail(s), c)
    ELSE IF s[Len(s)] = c THEN strip(SubSeq(s, 1, Len(s) - 1), c)
    ELSE s

\* the position a caller passes to move
MovePosition == <<"1", "5">>

\* command templates of the axis methods that return None:
\* stop, calibrate_sensor, move(position)
AxisTemplates ==
    [ stop |-> <<":STOP", "{:d}">>,
      calibrate_sensor |-> <<":CAL", "{:d}">>,
      move |-> <<":MOVE", "{:d}", " ">> \o MovePosition ]

AxisMethods == {"stop", "calibrate_sensor", "move"}

\* axis.stop(), axis.calibrate_sensor() or axis.move(position), for the
\* axis at position i of the list
axis_call(i, m) ==
    /\ pc = "idle"
    /\ life = "ready"
    /\ i \in 1..Len(axes)
    /\ op' = m
    /\ arg' = AxisTemplates[m]
    /\ result' = NoResult
    /\ Enter(axis_cmd(AxisTemplates[m], <<>>, axes[i].axis_nr), "axis")
    /\ enumLog' = <<>>
    /\ held' = 0
    /\ UNCHANGED <<dev, wire, old>>
    /\ UNCHANGED <<life, queue, axes, axis_nr, nch>>

\* the method returns None once send_cmd returned
axis_return ==
    /\ pc = "ret"
    /\ caller = "axis"
    /\ result' = [kind |-> "return", val |-> <<>>]
    /\ pc' = "idle"
    /\ UNCHANGED <<dev, wire, enq, old, held>>
    /\ UNCHANGED <<life, op, caller, cmd, ans, ret, log, q0, queue, axes,
                   axis_nr, nch, enumLog, arg>>

\* the property read axis.sensor_type, for the axis at position i
sensor_type(i) ==
    /\ pc = "idle"
    /\ life = "ready"
    /\ i \in 1..Len(axes)
    /\ op' = "sensor_type"
    /\ arg' = <<":CHAN", "{:d}", ":PTYPE:NAME?">>
    /\ result' = NoResult
    /\ Enter(axis_cmd(<<":CHAN", "{:d}", ":PTYPE:NAME?">>, <<>>,
                      axes[i].axis_nr), "sensor_type")
    /\ enumLog' = <<>>
    /\ held' = 0
    /\ UNCHANGED <<dev, wire, old>>
    /\ UNCHANGED <<life, queue, axes, axis_nr, nch>>

\* sensor_code = ans.strip("\"").rsplit('.')[0]; return sensor_code
sensor_type_return ==
    /\ pc = "ret"
    /\ caller = "sensor_type"
    /\ result' = [kind |-> "return", val |-> Split(strip(ret, "\""), ".")[1]]
    /\ pc' = "idle"
    /\ UNCHANGED <<dev, wire, enq, old, held>>
    /\ UNCHANGED <<life, op, caller, cmd, ans, ret, log, q0, queue, axes,
                   axis_nr, nch, enumLog, arg>>

\* ------------------------------------------------------------------ system
Next ==
    \/ _create_axes
    \/ nchannels_return
    \/ create_axes_step
    \/ \E c \in UserCmds : send_cmd(c)
    \/ send_cmd_command
    \/ send_cmd_count
    \/ send_cmd_next
    \/ send_cmd_return
    \/ \E i \in 1..MaxChan, d \in Directions : safe_direction(i, d)
    \/ safe_direction_return
    \/ \E i \in 1..MaxChan, m \in AxisMethods : axis_call(i, m)
    \/ axis_return
    \/ \E i \in 1..MaxChan : sensor_type(i)
    \/ sensor_type_return

Spec == Init /\ [][Next]_vars

TypeOK ==
    /\ life \in {"constructing", "ready", "failed"}
    /\ pc \in {"idle", "cmd", "count", "next", "ret"}
    /\ caller \in {"none", "user", "nchannels", "_create_axes", "safe_direction",
                  "axis", "sensor_type"}
    /\ dev \in {"fifo", "stuck"}
    /\ Len(log) < MaxLog \/ dev = "stuck"
    /\ old <= held
    /\ Len(queue) <= MaxQueue
    /\ Len(axes) <= MaxChan

\* ------------------------------------------------- an unreliable transport
\* what the log keeps of an exchange that failed
TransportFailed == <<"#failed">>

\* the request send_cmd is about to write
Request == IF pc = "cmd" THEN cmd ELSE IF pc = "count" THEN COUNT_QUERY ELSE NEXT_QUERY

\* the queues the controller can be left with when an exchange fails: the
\* request may or may not have reached it
AfterFailure ==
    IF pc = "cmd" THEN {queue \o e : e \in DeviceErrors(queue)}
    ELSE IF pc = "next" THEN {queue, DevicePop(queue)}
    ELSE {queue}

\* variant: a failed exchange is tried again
transport_fails_retry ==
    /\ pc \in {"cmd", "count", "next"}
    /\ log' = Record(log, [req |-> Request, rep |-> TransportFailed])
    /\ wire' = Request
    /\ \E q \in AfterFailure : queue' = q
    /\ UNCHANGED <<pc, result, life>>
    /\ UNCHANGED <<dev, enq, old, held>>
    /\ UNCHANGED <<op, caller, cmd, ans, ret, q0, axes, axis_nr, nch,
                   enumLog, arg>>

\* self._comm.send_cmd raises: send_cmd has no handler, nor has any
\* caller, so the exception ends the public operation
transport_fails ==
    /\ pc \in {"cmd", "count", "next"}
    /\ log' = Record(log, [req |-> Request, rep |-> TransportFailed])
    /\ wire' = Request
    /\ \E q \in AfterFailure : queue' = q
    /\ Raise("TransportFailure", <<>>)
    /\ UNCHANGED <<dev, enq, old, held>>
    /\ UNCHANGED <<op, caller, cmd, ans, ret, q0, axes, axis_nr, nch,
                   enumLog, arg>>

\* the operations that call send_cmd directly, over a transport that can
\* fail at any exchange
NextFail ==
    \/ _create_axes
    \/ nchannels_return
    \/ create_axes_step
    \/ \E c \in UserCmds : send_cmd(c)
    \/ send_cmd_command
    \/ send_cmd_count
    \/ send_cmd_next
    \/ send_cmd_return
    \/ transport_fails

SpecFail == Init /\ [][NextFail]_vars

\* ------------------------------------------------ a controller that sticks
\* the controller starts to report a nonzero error count for ever and to
\* answer every record read with a code-0 record
device_sticks ==
    /\ dev = "fifo"
    /\ dev' = "stuck"
    /\ UNCHANGED <<life, op, caller, pc, cmd, ans, ret, log, q0, result, queue,
                   axes, axis_nr, nch, enumLog, arg, wire, enq, held, old>>

\* the controller as its constructor leaves it when the channel count is 0
InitDrain ==
    /\ life = "ready"
    /\ op = "_create_axes"
    /\ caller = "nchannels"
    /\ pc = "idle"
    /\ cmd = NOCH_QUERY
    /\ ans = <<"0">>
    /\ ret = <<"0">>
    /\ log = << [req |-> NOCH_QUERY, rep |-> <<"0">>],
                [req |-> COUNT_QUERY, rep |-> <<"0">>] >>
    /\ q0 = <<>>
    /\ result = [kind |-> "return", val |-> <<>>]
    /\ queue = <<>>
    /\ axes = <<>>
    /\ axis_nr = 0
    /\ nch = 0
    /\ enumLog = <<>>
    /\ arg = <<>>
    /\ dev = "fifo"
    /\ wire = COUNT_QUERY
    /\ enq = <<>>
    /\ held = 0
    /\ old = 0

\* direct send_cmd calls, against a controller that may stick
NextDrain ==
    \/ \E c \in UserCmds : send_cmd(c)
    \/ send_cmd_command
    \/ send_cmd_count
    \/ send_cmd_next
    \/ send_cmd_return
    \/ device_sticks

\* send_cmd is sequential code over a blocking, reliable transport: the
\* exchange it is about to make does happen
SpecDrain ==
    /\ InitDrain
    /\ [][NextDrain]_vars
    /\ WF_vars(send_cmd_command \/ send_cmd_count \/ send_cmd_next)

\* ------------------------------------------- command formatting on its own
\* largest axis index a command is formatted for
MaxIndex == 63

\* templates with an axis placeholder: position, stop, move, positioner_mode
FormatTemplates ==
    { <<":CHAN", "{:d}", ":POS?">>,
      <<":STOP", "{:d}">>,
      <<":MOVE", "{:d}", " ">> \o MovePosition,
      <<":CHAN", "{:d}", ":MMOD ", "1">> }

\* an axis object with any index 0..MaxIndex is about to format a template
InitFormat ==
    /\ life = "ready"
    /\ op = "none"
    /\ caller = "none"
    /\ pc = "format"
    /\ cmd = <<>>
    /\ ans = <<>>
    /\ ret = <<>>
    /\ log = <<>>
    /\ q0 = <<>>
    /\ result = NoResult
    /\ queue = <<>>
    /\ axes = <<>>
    /\ axis_nr \in 0..MaxIndex
    /\ nch = 0
    /\ enumLog = <<>>
    /\ arg \in FormatTemplates
    /\ dev = "fifo"
    /\ wire = <<>>
    /\ enq = <<>>
    /\ held = 0
    /\ old = 0

\* cmd = str_cmd.format(self._axis_nr)
axis_format ==
    /\ pc = "format"
    /\ cmd' = axis_cmd(arg, <<>>, axis_nr)
    /\ pc' = "formatted"
    /\ UNCHANGED <<life, op, caller, ans, ret, log, q0, result, queue, axes,
                   axis_nr, nch, enumLog, arg, dev, wire, enq, held, old>>

SpecFormat == InitFormat /\ [][axis_format]_vars

\* =================================================================== claims
\* the code field of a "<code>,<message>" reply
ReplyCode(rep) == ParseInt(Split(rep, ",")[1])

\* number of exchanges of the log whose request is r
RECURSIVE Reads(_, _)
Reads(l, r) ==
    IF Len(l) = 0 THEN 0
    ELSE (IF Head(l).req = r THEN 1 ELSE 0) + Reads(Tail(l), r)

\* the current send_cmd call has ended by returning / by raising
SendReturned == pc = "ret"
SendRaised ==
    /\ pc = "idle"
    /\ Len(log) >= 1
    /\ result.kind = "RuntimeError"
    /\ Head(result.val) = "Error "

\* a record with nonzero code is queued after the command
HasFatal(q) == \E i \in 1..Len(q) : q[i].code # 0
FirstFatal(q) ==
    CHOOSE i \in 1..Len(q) : q[i].code # 0 /\ \A j \in 1..(i - 1) : q[j].code = 0

\* C1: when the first :SYST:ERR:COUN? after the command is answered 0, the
\* call makes no further exchange, raises nothing and returns exactly the
\* reply line the transport gave for the command.
C1_ReplyUnchanged ==
    (Len(log) >= 2 /\ ParseInt(log[2].rep) = 0) =>
        /\ Len(log) = 2
        /\ pc \in {"ret", "idle"}
        /\ ret = log[1].rep
        /\ ~SendRaised
        /\ (pc = "idle" /\ op = "send_cmd") =>
               result = [kind |-> "return", val |-> log[1].rep]

C1_Witness ==
    /\ pc = "idle"
    /\ op = "send_cmd"
    /\ Len(log) = 2
    /\ ParseInt(log[2].rep) = 0
    /\ result = [kind |-> "return", val |-> <<"0", ",", "3">>]

\* C2: with records queued after the command, send_cmd raises on the first
\* record whose code is nonzero and the error carries exactly that record's
\* code and message text, whatever follows it and whether or not the code
\* is in ERROR_CODES.
C2_FirstFatalRaisedExactly ==
    /\ (SendReturned => ~HasFatal(q0))
    /\ (SendRaised =>
           /\ HasFatal(q0)
           /\ result.val = <<"Error ">> \o FormatInt(q0[FirstFatal(q0)].code)
                             \o <<": ">> \o q0[FirstFatal(q0)].msg)

\* C3: a reply is never handed back once a record with nonzero code has
\* been read in the call's drain: such a call ends by raising, and a call
\* that returns has read only code-0 records.
C3_ReplyOrError ==
    LET sawFatal == \E i \in 1..Len(log) :
                        log[i].req = NEXT_QUERY /\ ReplyCode(log[i].rep) # 0
    IN  /\ sawFatal => (SendRaised /\ pc # "ret")
        /\ (pc = "idle" /\ op = "send_cmd" /\ result.kind = "return") =>
               ~sawFatal

C3_Witness ==
    /\ SendRaised
    /\ op = "send_cmd"
    /\ ReplyCode(log[Len(log)].rep) = 999

\* C4: the drain loop ends normally only on a count query answered 0, and
\* records with code 0 are read through: when N code-0 records are queued
\* after the command the call does not raise and returns after exactly N
\* :SYST:ERR:NEXT? reads.
C4_DrainUntilZero ==
    /\ SendReturned =>
           /\ log[Len(log)].req = COUNT_QUERY
           /\ Reads(log, NEXT_QUERY) = Len(q0)
           /\ Reads(log, COUNT_QUERY) = Len(q0) + 1
    /\ (Len(log) >= 1 /\ ~HasFatal(q0)) => ~SendRaised

C4_Witness ==
    /\ SendReturned
    /\ Len(q0) = MaxQueue
    /\ Reads(log, NEXT_QUERY) = MaxQueue

\* C5: whenever send_cmd returns normally its last exchange was a count
\* query answered 0, and the controller's error queue is empty.
C5_EmptyAtReturn ==
    SendReturned =>
        /\ ParseInt(log[Len(log)].rep) = 0
        /\ log[Len(log)] = [req |-> COUNT_QUERY, rep |-> <<"0">>]
        /\ queue = <<>>

C5_Witness ==
    /\ SendReturned
    /\ Len(q0) >= 1
    /\ queue = <<>>

\* the current send_cmd call is over
SendOver == SendReturned \/ SendRaised

\* C6 as stated: every call makes at least 2 and at most N+2 round-trips,
\* N the number of records queued after the command.
C6_AtMostNPlus2 ==
    /\ SendOver => Len(log) >= 2
    /\ Len(log) >= 1 => Len(log) <= Len(q0) + 2

\* C6 amended: every call makes at least 2 and at most 2N+2 round-trips:
\* 1 for the command, at most N+1 count queries and at most N record reads.
C6_AtMost2NPlus2 ==
    /\ SendOver => Len(log) >= 2
    /\ Len(log) >= 1 =>
           /\ Len(log) <= 2 * Len(q0) + 2
           /\ Reads(log, COUNT_QUERY) <= Len(q0) + 1
           /\ Reads(log, NEXT_QUERY) <= Len(q0)
           /\ Reads(log, cmd) = 1

C6_Witness ==
    /\ SendOver
    /\ Len(q0) >= 1
    /\ Len(log) = 2 * Len(q0) + 2

\* C7: the text of a controller error contains the numeric code and the
\* complete message text of the record that was read, also when that text
\* contains a comma.
C7_MessageVerbatim ==
    SendRaised =>
        LET rec == q0[Reads(log, NEXT_QUERY)]
        IN  /\ IsInfix(FormatInt(rec.code), result.val)
            /\ IsInfix(rec.msg, result.val)

\* an enumeration has ended with the unknown-sensor error
EnumFailed ==
    /\ op = "_create_axes"
    /\ pc = "idle"
    /\ result.kind = "RuntimeError"
    /\ Head(result.val) = "Failed to create axis "

\* C8: after an enumeration that failed on an unknown sensor code the axis
\* list is empty.
C8_AtomicFailure == EnumFailed => axes = <<>>

\* an enumeration has ended normally
EnumDone == op = "_create_axes" /\ pc = "idle" /\ result.kind = "return"

\* C9: an enumeration that found n channels, all with known sensor codes,
\* has queried channels 0..n-1 in ascending order, each once, and holds
\* exactly n axes with channel indices 0,1,...,n-1 in that order.
C9_AxesInIndexOrder ==
    /\ EnumDone =>
           /\ Len(axes) = nch
           /\ \A i \in 1..Len(axes) : axes[i].axis_nr = i - 1
           /\ Len(enumLog) = nch
           /\ \A i \in 1..Len(enumLog) :
                  /\ enumLog[i].cmd = <<":CHAN", DigitChars[i], ":PTYPE:NAME?">>
                  /\ enumLog[i].code \in KnownSensors
    /\ EnumFailed => enumLog[Len(enumLog)].code \notin KnownSensors

C9_Witness ==
    /\ EnumDone
    /\ nch = MaxChan
    /\ Len(axes) = MaxChan
    /\ axes[MaxChan].axis_nr = MaxChan - 1

\* C10: assigning safe_direction a string that is neither 'forward' nor
\* 'backward' in any letter case raises ValueError and makes no transport
\* exchange.
C10_InvalidDirectionNoIO ==
    (op = "safe_direction" /\ lower(arg) \notin {FORWARD, BACKWARD}) =>
        /\ pc = "idle"
        /\ result.kind = "ValueError"
        /\ log = <<>>

C10_Witness ==
    /\ op = "safe_direction"
    /\ arg = <<"s", "i", "d", "e", "w", "a", "y", "s">>
    /\ result.kind = "ValueError"
    /\ log = <<>>

\* the leading run of decimal digits of a text
RECURSIVE DigitRun(_)
DigitRun(t) ==
    IF Len(t) = 0 \/ ~(\E k \in 1..10 : DigitChars[k] = Head(t)) THEN <<>>
    ELSE <<Head(t)>> \o DigitRun(Tail(t))

\* C11: for every axis index N in 0..63 and every template with an axis
\* placeholder, the formatted command is the template with the decimal
\* digits of N in place of the placeholder, reading the digits back gives
\* N, and no other index gives the same command from that template.
C11_IndexRoundTrip ==
    pc = "formatted" =>
        /\ cmd = <<arg[1]>> \o DigitRun(Tail(cmd)) \o SubSeq(arg, 3, Len(arg))
        /\ DigitRun(Tail(cmd)) # <<>>
        /\ ParseInt(DigitRun(Tail(cmd))) = axis_nr
        /\ \A m \in 0..MaxIndex :
               m # axis_nr => axis_cmd(arg, <<>>, m) # cmd

C11_Witness ==
    /\ pc = "formatted"
    /\ axis_nr = MaxIndex
    /\ cmd = <<":MOVE", "6", "3", " ", "1", "5">>

\* C12: a controller error raised by a call on a constructed controller is
\* caused by that call's own command: the command added a record with
\* nonzero code to the error queue.
C12_ErrorFromOwnCommand == (SendRaised /\ life = "ready") => HasFatal(enq)

\* C13: when send_cmd raises a controller error, the record read that gave
\* the nonzero code is the call's last exchange, and every record queued
\* behind the reported one is still in the controller's queue.
C13_RaiseLeavesRest ==
    SendRaised =>
        LET k == Reads(log, NEXT_QUERY)
        IN  /\ log[Len(log)].req = NEXT_QUERY
            /\ ReplyCode(log[Len(log)].rep) # 0
            /\ k = FirstFatal(q0)
            /\ Len(log) = 2 * k + 1
            /\ queue = SubSeq(q0, k + 1, Len(q0))

C13_Witness ==
    /\ SendRaised
    /\ Len(q0) = MaxQueue
    /\ Len(queue) = MaxQueue - 1

\* a request that is a logical command, not part of the error drain
IsLogical(w) == w \notin {<<>>, COUNT_QUERY, NEXT_QUERY}

\* C14: over any sequence of controller and axis operations, the exchange
\* that follows a logical command on the transport is a :SYST:ERR:COUN?
\* query: no other command is written before the drain has started.
C14_CommandThenCount ==
    [][ (log' # log /\ log' # <<>> /\ IsLogical(wire)) =>
            /\ wire' = COUNT_QUERY
            /\ log'[Len(log')].req = COUNT_QUERY
            /\ Len(log') = 2 ]_vars

C14_Witness ==
    /\ op = "move"
    /\ Len(log) = 2
    /\ log[1].req = <<":MOVE", "1", " ", "1", "5">>
    /\ wire = COUNT_QUERY

\* C15: within one call the exchanges are the command, a count query, then
\* record reads and count queries in strict alternation; a record is read
\* only right after a count query answered nonzero, and a record read that
\* gives code 0 is followed by a new count query.
C15_ExchangeOrder ==
    Len(log) >= 1 =>
        /\ log[1].req = cmd
        /\ IsLogical(cmd)
        /\ \A i \in 2..Len(log) :
               IF i % 2 = 0
               THEN log[i].req = COUNT_QUERY
               ELSE /\ log[i].req = NEXT_QUERY
                    /\ ParseInt(log[i - 1].rep) # 0
        /\ (Len(log) >= 2 /\ Len(log) % 2 = 0 /\ ParseInt(log[Len(log)].rep) # 0)
               => pc = "next"
        /\ (Len(log) >= 3 /\ Len(log) % 2 = 1 /\ ReplyCode(log[Len(log)].rep) = 0)
               => pc = "count"
        /\ Len(log) = 1 => pc = "count"

C15_Witness ==
    /\ SendRaised
    /\ Len(log) = 5
    /\ ReplyCode(log[3].rep) = 0
    /\ ReplyCode(log[5].rep) # 0

\* an exchange of the current call failed in the transport
HasFailed == \E i \in 1..Len(log) : log[i].rep = TransportFailed

\* C16: when a transport exchange fails inside send_cmd, whether the
\* command, a count query or a record read, the call ends with that
\* failure: the failed exchange is its last, the command was written once,
\* and no reply is returned.
C16_TransportFailureEndsCall ==
    /\ HasFailed =>
           /\ pc = "idle"
           /\ result = [kind |-> "TransportFailure", val |-> <<>>]
           /\ log[Len(log)].rep = TransportFailed
           /\ \A i \in 1..(Len(log) - 1) : log[i].rep # TransportFailed
           /\ Reads(log, log[1].req) = 1
    /\ result.kind = "TransportFailure" => HasFailed

C16_Witness ==
    /\ HasFailed
    /\ Len(log) = 4
    /\ log[4].req = COUNT_QUERY
    /\ result.kind = "TransportFailure"

\* send_cmd is between its entry and its end
InCall == pc \in {"cmd", "count", "next"}

\* C17: against a working controller (finite queue, one record removed per
\* read, nothing queued during the drain) every send_cmd call ends, by
\* returning or raising; against a controller that answers every count
\* query nonzero and every record read with code 0 the call never returns
\* and never raises.
C17_DrainEndsUnlessStuck ==
    /\ [](  (InCall /\ dev = "fifo") => <>(~InCall \/ dev = "stuck") )
    /\ [][ (InCall /\ dev = "stuck") => InCall' ]_vars

\* a call still draining after more exchanges than any working controller
\* needs: the last count was nonzero, the last record read had code 0
C17_Witness ==
    /\ dev = "stuck"
    /\ pc = "next"
    /\ Len(log) = MaxLog
    /\ log[MaxLog].req = COUNT_QUERY
    /\ ParseInt(log[MaxLog].rep) # 0
    /\ log[MaxLog - 1].req = NEXT_QUERY
    /\ ReplyCode(log[MaxLog - 1].rep) = 0

\* the sensor-type name a reply line reports: quotes and carriage return
\* removed, cut at the first '.'
ReportedName(rep) == Split(Remove(Remove(rep, "\""), "\r"), ".")[1]

\* SL, SR, CUSTOM0 .. CUSTOM3
AxisNames ==
    { <<"S", "L">>, <<"S", "R">> } \cup
    { <<"C", "U", "S", "T", "O", "M">> \o FormatInt(k) : k \in 0..3 }

\* C18: the list of axes only ever changes by being emptied or by gaining
\* one axis for the channel whose type query has just returned, and the
\* name the controller reported for that channel is one of SL, SR,
\* CUSTOM0..CUSTOM3; no axis is registered for any other code.
C18_OnlyKnownSensors ==
    [][ axes' # axes =>
          \/ axes' = <<>>
          \/ /\ axes' = Append(axes, [axis_nr |-> axis_nr])
             /\ pc = "ret"
             /\ caller = "_create_axes"
             /\ cmd = PtypeQuery(axis_nr)
             /\ Len(log) >= 1
             /\ log[1].req = cmd
             /\ log[1].rep = ret
             /\ ReportedName(ret) \in AxisNames ]_vars

\* channel 0 reported CUSTOM2 and got an axis, channel 1 reported an
\* unknown code and got none
C18_Witness ==
    /\ EnumFailed
    /\ Len(enumLog) = 2
    /\ enumLog[1].code = <<"C", "U", "S", "T", "O", "M", "2">>
    /\ enumLog[2].code \notin AxisNames
    /\ Len(axes) = 1

\* C19: whatever enumerations came before, the axis at list position i has
\* channel index i (counted from 0); an enumeration removes every axis held
\* before it queries any channel, so no axis of an earlier enumeration is
\* left in the list.
C19_FreshIndexedAxes ==
    /\ \A i \in 1..Len(axes) : axes[i].axis_nr = i - 1
    /\ old = 0
    /\ op = "_create_axes" => Len(axes) <= Len(enumLog)
    /\ (op = "_create_axes" /\ caller = "nchannels" /\ pc # "idle") =>
            axes = <<>>

\* a re-enumeration that found fewer channels than the list held before
C19_Witness ==
    /\ EnumDone
    /\ held = MaxChan
    /\ Len(axes) = 1
    /\ axes[1].axis_nr = 0

\* C20: the command written when safe_direction is set carries the value:
\* 'forward' writes SSD0 and 'backward' writes SSD1.
C20_CommandCarriesValue ==
    (op = "safe_direction" /\ Len(log) >= 1) =>
        /\ lower(arg) = FORWARD => log[1].req = <<"SSD", "0">>
        /\ lower(arg) = BACKWARD => log[1].req = <<"SSD", "1">>
====
